---- MODULE Spec2Model ----
(***************************************************************************)
(* docker-cleanup: the filesystem analyzer (src/src/filesystem.rs) and the *)
(* interactive cleanup that drives it (run_filesystem_cleanup in           *)
(* src/src/main.rs), as a state machine over a small directory tree.       *)
(***************************************************************************)
EXTENDS Integers, Sequences, FiniteSets, TLC

VARIABLES
    fs,                 \* the directory tree: node -> entry (metadata, content, faults)
    pc,                 \* position in run_filesystem_cleanup
    scan_path,          \* main.rs:244 scan_path
    config,             \* AnalysisConfig handed to analyze_disk
    now,                \* find_old_files: the SystemTime::now() it captured
    large_files,        \* DiskAnalysis.large_files
    duplicate_groups,   \* DiskAnalysis.duplicate_groups
    old_files,          \* DiskAnalysis.old_files
    cache_dirs,         \* DiskAnalysis.cache_dirs
    total_reclaimable,  \* DiskAnalysis.total_reclaimable
    presented,          \* the analysis has been printed (main.rs:261-357)
    queue,              \* items the running cleanup loop has still to delete
    removed_count,      \* main.rs removed_count of the running cleanup step
    removed_size,       \* main.rs removed_size of the running cleanup step
    deletions,          \* every delete_file / delete_directory call so far, in order
    selected,           \* the items the latest accepted cleanup step set out to delete
    steps               \* the cleanup steps the user accepted so far, in order

vars == <<fs, pc, scan_path, config, now, large_files, duplicate_groups, old_files,
          cache_dirs, total_reclaimable, presented, queue, removed_count,
          removed_size, deletions, selected, steps>>

(***************************************************************************)
(* Bounds of the model.                                                    *)
(***************************************************************************)
\* how many entries of the tree may carry a fault (unreadable, undeletable, ...)
MaxFaults == 1
\* how many numbers the user may type at the cache-type selection prompt
MaxSelections == 1

(***************************************************************************)
(* Strings: str::starts_with, str::ends_with, str::contains.               *)
(***************************************************************************)
starts_with(s, p) == Len(s) >= Len(p) /\ SubSeq(s, 1, Len(p)) = p

ends_with(s, p) == Len(s) >= Len(p) /\ SubSeq(s, Len(s) - Len(p) + 1, Len(s)) = p

contains(s, p) == \E i \in 1..(Len(s) - Len(p) + 1) : SubSeq(s, i, i + Len(p) - 1) = p

(***************************************************************************)
(* Path Filter: filesystem.rs should_exclude_path.                         *)
(***************************************************************************)
excluded_dirs ==
    << "/proc", "/sys", "/dev", "/run", "/boot",
       "System Volume Information", "Windows", "Program Files",
       "AppData/Local/Temp", "$Recycle.Bin" >>

should_exclude_path(path) ==
    \E i \in DOMAIN excluded_dirs :
        \/ starts_with(path, excluded_dirs[i])
        \/ contains(path, "/" \o excluded_dirs[i] \o "/")

(***************************************************************************)
(* The directory tree.  Entries are listed in the order a depth-first      *)
(* walk meets them; rel is the path below the scanned root ("" the root).  *)
(***************************************************************************)
Entries ==
    << [rel |-> "",                               kind |-> "dir",     parent |-> ""],
       [rel |-> "a.txt",                          kind |-> "file",    parent |-> ""],
       [rel |-> "b.bin",                          kind |-> "file",    parent |-> ""],
       [rel |-> "proj",                           kind |-> "dir",     parent |-> ""],
       [rel |-> "proj/build",                     kind |-> "dir",     parent |-> "proj"],
       [rel |-> "proj/build/c.bin",               kind |-> "file",    parent |-> "proj/build"],
       [rel |-> "proj/node_modules",              kind |-> "dir",     parent |-> "proj"],
       [rel |-> "proj/node_modules/leftover.pkg", kind |-> "file",    parent |-> "proj/node_modules"],
       [rel |-> "proj/loop",                      kind |-> "symlink", parent |-> "proj"],
       [rel |-> ".git",                           kind |-> "dir",     parent |-> ""],
       [rel |-> ".git/pack",                      kind |-> "file",    parent |-> ".git"],
       [rel |-> "Windows",                        kind |-> "dir",     parent |-> ""],
       [rel |-> "Windows/w.dll",                  kind |-> "file",    parent |-> "Windows"] >>

Nodes == { Entries[i].rel : i \in DOMAIN Entries }

EntryOf(n) == Entries[CHOOSE i \in DOMAIN Entries : Entries[i].rel = n]

ParentOf(n) == EntryOf(n).parent

RECURSIVE DepthFrom(_)
DepthFrom(n) == IF n = "" THEN 0 ELSE 1 + DepthFrom(ParentOf(n))

RECURSIVE AncestorsFrom(_)
AncestorsFrom(n) == IF n = "" THEN {""} ELSE {n} \cup AncestorsFrom(ParentOf(n))

DepthTable == [n \in Nodes |-> DepthFrom(n)]

AncestorsTable == [n \in Nodes |-> AncestorsFrom(n)]

SubtreeTable == [top \in Nodes |-> { n \in Nodes : top \in AncestorsTable[n] }]

KindTable == [n \in Nodes |-> EntryOf(n).kind]

\* the depth of n below the root
Depth(n) == DepthTable[n]

\* n and the directories above it, up to the root
SelfAndAncestors(n) == AncestorsTable[n]

\* the nodes at or below top
Subtree(top) == SubtreeTable[top]

KindOf(n) == KindTable[n]

\* Path::join: the path string an entry of the walk carries
PathOf(root, n) == IF n = "" THEN root ELSE root \o "/" \o n

(***************************************************************************)
(* File contents and times.                                                *)
(***************************************************************************)
MiB == 1024 * 1024

\* find_duplicates: files of at most this many bytes are never considered
NoiseFloor == 1024

SecsPerDay == 24 * 60 * 60

\* the clock, in seconds: 200 days after the oldest access time of the model
Clock == 200 * SecsPerDay

ContentX == [len |-> 2 * MiB, tag |-> "X"]
ContentY == [len |-> 2 * MiB, tag |-> "Y"]
ContentT == [len |-> NoiseFloor, tag |-> "T"]
ContentE == [len |-> 0, tag |-> ""]
ContentG == [len |-> 50 * MiB, tag |-> "G"]

TimeOld == Clock - 200 * SecsPerDay
TimeDayAgo == Clock - SecsPerDay
TimeFuture == Clock + 1

\* what each file may hold, and when it may last have been accessed
ContentChoices(n) ==
    CASE n = "a.txt" -> {ContentX, ContentT}
      [] n = "b.bin" -> {ContentX, ContentY, ContentT}
      [] n = "proj/build/c.bin" -> {ContentX, ContentY}
      [] n = "proj/node_modules/leftover.pkg" -> {ContentE, ContentY}
      [] n = ".git/pack" -> {ContentG}
      [] n = "Windows/w.dll" -> {ContentX}
      [] OTHER -> {ContentE}

AtimeChoices(n) ==
    CASE n = "a.txt" -> {TimeOld, TimeFuture}
      [] n = "b.bin" -> {TimeOld, TimeDayAgo}
      [] n = "proj/node_modules/leftover.pkg" -> {TimeDayAgo}
      [] OTHER -> {TimeOld}

\* faults an entry may carry:
\*   "meta"   its metadata cannot be read            (entry.metadata() is Err)
\*   "times"  its timestamps cannot be read          (accessed()/modified() is Err)
\*   "read"   it cannot be opened or read            (hash_file is Err)
\*   "list"   a directory that cannot be entered     (the walk yields Err)
\*   "locked" it cannot be removed                   (remove_file/remove_dir_all is Err)
FaultChoices(n) ==
    CASE n = "a.txt" -> {"read", "times"}
      [] n = "b.bin" -> {"read", "meta", "locked"}
      [] n = "proj/build/c.bin" -> {"locked"}
      [] n = "proj/node_modules/leftover.pkg" -> {"meta"}
      [] n = "proj" -> {"list"}
      [] OTHER -> {}

\* the (entry, fault) pairs the model draws faults from
FaultSites == UNION { { <<n, k>> : k \in FaultChoices(n) } : n \in Nodes }

FaultSets ==
    { F \in SUBSET FaultSites :
        /\ Cardinality(F) <= MaxFaults
        /\ \A x \in F, y \in F : x[1] = y[1] => x = y }

FaultOf(F, n) == IF \E x \in F : x[1] = n THEN (CHOOSE x \in F : x[1] = n)[2] ELSE "none"

\* every way to give the first i entries a content, an access time
RECURSIVE ContentMaps(_)
ContentMaps(i) ==
    IF i = 0 THEN { <<>> }
    ELSE { Append(m, c) : m \in ContentMaps(i - 1), c \in ContentChoices(Entries[i].rel) }

RECURSIVE AtimeMaps(_)
AtimeMaps(i) ==
    IF i = 0 THEN { <<>> }
    ELSE { Append(m, t) : m \in AtimeMaps(i - 1), t \in AtimeChoices(Entries[i].rel) }

\* the trees a run may start from
FsStates ==
    { [n \in Nodes |->
          LET i == CHOOSE k \in DOMAIN Entries : Entries[k].rel = n
          IN  [present |-> TRUE, content |-> c[i], atime |-> a[i], mtime |-> TimeOld,
               fault |-> FaultOf(F, n)]] :
        c \in ContentMaps(Len(Entries)), a \in AtimeMaps(Len(Entries)), F \in FaultSets }

(***************************************************************************)
(* The scan roots the user may type, and the configurations.               *)
(***************************************************************************)
\* main.rs:244-248: "." when the input is empty, else the input
ScanPaths == { ".", "mysys", "/system", "/devel", "Windows_backup" }

\* an input naming no existing path (main.rs:250)
MissingPath == "nowhere"

AllPaths == { PathOf(r, n) : r \in ScanPaths, n \in Nodes }

\* should_exclude_path, tabulated over the paths of the model
ExcludedPaths == { p \in AllPaths : should_exclude_path(p) }

\* AnalysisConfig::default()
DefaultMinFileSizeMb == 100
DefaultOldFileDays == 180
DefaultMaxLargeFiles == 10

\* A u64 argument too large for 32-bit model integers is written [hi, lo]:
\*   min_file_size_mb = hi * 2^44 + lo             (2^44 = 2^64 / (1024 * 1024))
\*   old_file_days    = hi * 213503982334602 + lo  (the least days with days * 86400 >= 2^64)
\* so that hi = 0 is every value whose product fits u64, hi > 0 one that overflows.
U64(lo) == [hi |-> 0, lo |-> lo]

OverflowingMb == [hi |-> 1, lo |-> 0]

OverflowingDays == [hi |-> 1, lo |-> 0]

default_config ==
    [min_file_size_mb |-> U64(DefaultMinFileSizeMb), old_file_days |-> U64(DefaultOldFileDays),
     max_large_files |-> DefaultMaxLargeFiles]

\* the configurations analyze_disk is called with; main.rs:258 passes the default
Configs ==
    { default_config,
      [default_config EXCEPT !.min_file_size_mb = U64(2), !.old_file_days = U64(1)],
      [default_config EXCEPT !.min_file_size_mb = U64(2), !.old_file_days = OverflowingDays],
      [default_config EXCEPT !.min_file_size_mb = OverflowingMb, !.old_file_days = U64(1)] }

(***************************************************************************)
(* u64 arithmetic of the thresholds.                                       *)
(***************************************************************************)
\* min_size_mb * 1024 * 1024 exceeds u64: (hi * 2^44 + lo) * 2^20 = hi * 2^64 + lo * 2^20
min_size_overflows(min_size_mb) == min_size_mb.hi > 0

\* min_size_mb * 1024 * 1024 as the wrapping u64 product: the low 64 bits
min_size_bytes_of(min_size_mb) == min_size_mb.lo * MiB

\* 2^64 mod 86400 = 25216, so 213503982334602 * 86400 = 2^64 + (86400 - 25216)
DaysWrapResidue == SecsPerDay - 25216

\* days * 24 * 60 * 60 exceeds u64
threshold_overflows(days) == days.hi > 0

\* days * 24 * 60 * 60 as the wrapping u64 product, in seconds
threshold_secs_of(days) == days.hi * DaysWrapResidue + days.lo * SecsPerDay

(***************************************************************************)
(* Directory Walker: WalkDir::new(top).follow_links(false)[.max_depth(d)]  *)
(* .into_iter()[.filter_entry(|e| !should_exclude_path(e.path()))].        *)
(* max_depth is {} (none) or {d}.  The walk yields Ok entries and, after a *)
(* directory it cannot enter, an Err.                                      *)
(***************************************************************************)
Pruned(n, filtered) == filtered /\ PathOf(scan_path, n) \in ExcludedPaths

WithinDepth(top, n, max_depth) == \A d \in max_depth : Depth(n) - Depth(top) <= d

Descends(top, n, max_depth) ==
    /\ KindOf(n) = "dir"
    /\ \A d \in max_depth : Depth(n) - Depth(top) < d

Yielded(top, n, max_depth, filtered) ==
    /\ n \in Subtree(top)
    /\ WithinDepth(top, n, max_depth)
    /\ \A a \in SelfAndAncestors(n) \cap Subtree(top) :
          /\ fs[a].present
          /\ ~Pruned(a, filtered)
          /\ a # n => KindOf(a) = "dir" /\ fs[a].fault # "list"

RECURSIVE WalkFrom(_, _, _, _)
WalkFrom(i, top, max_depth, filtered) ==
    IF i > Len(Entries) THEN << >>
    ELSE LET n == Entries[i].rel
             ok == << [ok |-> TRUE, rel |-> n] >>
             err == IF Descends(top, n, max_depth) /\ fs[n].fault = "list"
                    THEN << [ok |-> FALSE, rel |-> n] >> ELSE << >>
         IN  (IF Yielded(top, n, max_depth, filtered) THEN ok \o err ELSE << >>)
             \o WalkFrom(i + 1, top, max_depth, filtered)

\* a faulty variant: the walk ends at the first entry it cannot read
RECURSIVE UntilFirstErr(_)
UntilFirstErr(items) ==
    IF items = << >> \/ ~Head(items).ok THEN << >>
    ELSE << Head(items) >> \o UntilFirstErr(Tail(items))

WalkDirEndsAtError(top, max_depth, filtered) ==
    UntilFirstErr(WalkFrom(1, top, max_depth, filtered))

WalkDir(top, max_depth, filtered) == WalkFrom(1, top, max_depth, filtered)

\* entry.file_type().is_file() / is_dir(): a symbolic link is neither
is_file(n) == KindOf(n) = "file"

is_dir(n) == KindOf(n) = "dir"

\* entry.metadata() is Ok
metadata_ok(n) == fs[n].present /\ fs[n].fault # "meta"

\* metadata.accessed() and metadata.modified() are Ok
times_ok(n) == fs[n].fault # "times"

FileInfo(n) ==
    [path |-> PathOf(scan_path, n), size |-> fs[n].content.len,
     last_accessed |-> fs[n].atime, last_modified |-> fs[n].mtime]

\* the entry a path of this scan names
NodeAt(path) ==
    IF path = scan_path THEN "" ELSE SubSeq(path, Len(scan_path) + 2, Len(path))

FileInfos(items) == [i \in 1..Len(items) |-> FileInfo(items[i].rel)]

(***************************************************************************)
(* Large-File Scanner: filesystem.rs find_large_files.                     *)
(***************************************************************************)
\* size >= min_size_bytes
size_reaches(size, min_size_bytes) == size >= min_size_bytes

\* places x behind every element at least as large
RECURSIVE insert_by_size_desc(_, _)
insert_by_size_desc(sorted, x) ==
    IF sorted = << >> THEN << x >>
    ELSE IF Head(sorted).size >= x.size
         THEN << Head(sorted) >> \o insert_by_size_desc(Tail(sorted), x)
         ELSE << x >> \o sorted

\* sort_by(|a, b| b.size.cmp(&a.size)): a stable sort, largest first
RECURSIVE sort_by_size_desc(_)
sort_by_size_desc(s) ==
    IF s = << >> THEN << >>
    ELSE insert_by_size_desc(sort_by_size_desc(SubSeq(s, 1, Len(s) - 1)), s[Len(s)])

find_large_files(min_size_bytes) ==
    LET keep(it) ==
            /\ it.ok
            /\ is_file(it.rel)
            /\ metadata_ok(it.rel)
            /\ size_reaches(fs[it.rel].content.len, min_size_bytes)
            /\ times_ok(it.rel)
    IN  sort_by_size_desc(FileInfos(SelectSeq(WalkDir("", {}, TRUE), keep)))

(***************************************************************************)
(* Duplicate Scanner: filesystem.rs hash_file and find_duplicates.         *)
(***************************************************************************)
\* SHA-256 of a content, as lower-case hex: distinct contents, distinct digests
sha256_hex(content) == << "sha256", content.tag, content.len >>

\* hash_file(path): Err when the file cannot be opened or read
hash_file(path) ==
    LET n == NodeAt(path)
    IN  IF fs[n].present /\ fs[n].fault # "read"
        THEN [ok |-> TRUE, hash |-> sha256_hex(fs[n].content)]
        ELSE [ok |-> FALSE, hash |-> << >>]

\* a faulty variant: the noise floor admits files of exactly 1024 bytes
above_noise_floor_inclusive(size) == size >= NoiseFloor

\* size > 1024
above_noise_floor(size) == size > NoiseFloor

\* first pass: the files of the walk that enter size_groups, in walk order
size_pass ==
    LET keep(it) ==
            /\ it.ok
            /\ is_file(it.rel)
            /\ metadata_ok(it.rel)
            /\ above_noise_floor(fs[it.rel].content.len)
            /\ times_ok(it.rel)
    IN  FileInfos(SelectSeq(WalkDir("", {}, TRUE), keep))

\* size_groups: size -> the files of that size, in walk order
size_groups(files) ==
    [s \in { files[i].size : i \in DOMAIN files } |->
        SelectSeq(files, LAMBDA f : f.size = s)]

\* a faulty variant: the second pass left out, files of one size taken for duplicates
hash_pass_by_size_only(groups) ==
    [s \in { k \in DOMAIN groups : Len(groups[k]) > 1 } |-> groups[s]]

\* second pass: hash_groups, digest -> the files of that digest.  Only files of
\* size buckets holding more than one file are hashed; a file hash_file fails on
\* is dropped.  Files of one digest have one size, so they come from one bucket,
\* in its (walk) order, whatever order the buckets are taken in.
hash_pass(groups) ==
    LET files == size_pass
        shared == SelectSeq(files, LAMBDA f : Len(groups[f.size]) > 1)
        hashed == SelectSeq(shared, LAMBDA f : hash_file(f.path).ok)
    IN  [h \in { hash_file(hashed[i].path).hash : i \in DOMAIN hashed } |->
            SelectSeq(hashed, LAMBDA f : hash_file(f.path).hash = h)]

\* a faulty variant: every digest bucket is returned
duplicate_buckets_all(hash_groups) == { hash_groups[h] : h \in DOMAIN hash_groups }

\* .filter(|(_, files)| files.len() > 1)
duplicate_buckets(hash_groups) ==
    { hash_groups[h] : h \in { k \in DOMAIN hash_groups : Len(hash_groups[k]) > 1 } }

\* the groups find_duplicates returns; a HashMap yields them in any order
find_duplicates == duplicate_buckets(hash_pass(size_groups(size_pass)))

\* the sequences that list every element of S once
Orderings(S) ==
    { q \in [1..Cardinality(S) -> S] : \A i, j \in 1..Cardinality(S) : q[i] = q[j] => i = j }

(***************************************************************************)
(* Stale-File Scanner: filesystem.rs find_old_files.                       *)
(***************************************************************************)
\* SystemTime::duration_since: Err when `earlier` is after `later`
duration_since(later, earlier) ==
    IF earlier <= later THEN [ok |-> TRUE, secs |-> later - earlier]
    ELSE [ok |-> FALSE, secs |-> 0]

\* duration_since >= threshold
is_stale(age, threshold) == age.ok /\ age.secs >= threshold

find_old_files(threshold, captured_now) ==
    LET keep(it) ==
            /\ it.ok
            /\ is_file(it.rel)
            /\ metadata_ok(it.rel)
            /\ times_ok(it.rel)
            /\ is_stale(duration_since(captured_now, fs[it.rel].atime), threshold)
    IN  FileInfos(SelectSeq(WalkDir("", {}, TRUE), keep))

(***************************************************************************)
(* Cache-Directory Scanner: calculate_dir_size, find_cache_directories.    *)
(***************************************************************************)
RECURSIVE SumOf(_)
SumOf(sizes) == IF sizes = << >> THEN 0 ELSE Head(sizes) + SumOf(Tail(sizes))

\* the walk below a directory, unfiltered; entries and metadata that fail are
\* dropped, the sizes of the regular files summed
calculate_dir_size(n) ==
    LET keep(it) == it.ok /\ metadata_ok(it.rel) /\ is_file(it.rel)
        files == SelectSeq(WalkDir(n, {}, FALSE), keep)
    IN  SumOf([i \in 1..Len(files) |-> fs[files[i].rel].content.len])

cache_patterns ==
    << << "node_modules", "npm/yarn" >>,
       << "target", "Rust/Cargo" >>,
       << ".cache", "System cache" >>,
       << "__pycache__", "Python" >>,
       << ".npm", "npm cache" >>,
       << ".cargo/registry", "Cargo registry" >>,
       << ".pip", "pip cache" >>,
       << "dist", "Build output" >>,
       << "build", "Build output" >>,
       << ".gradle", "Gradle cache" >>,
       << ".m2/repository", "Maven cache" >> >>

\* .max_depth(6)
CacheMaxDepth == 6

\* a faulty variant: an empty cache directory is recorded as well
records_cache_dir_always(size) == TRUE

\* if size > 0
records_cache_dir(size) == size > 0

\* the inner loop over cache_patterns for one directory; acc = [dirs, seen]
RECURSIVE match_patterns(_, _, _)
match_patterns(n, j, acc) ==
    IF j > Len(cache_patterns) THEN acc
    ELSE LET path == PathOf(scan_path, n)
             size == calculate_dir_size(n)
             hit == ends_with(path, cache_patterns[j][1]) /\ path \notin acc.seen
             next == IF hit /\ records_cache_dir(size)
                     THEN [dirs |-> Append(acc.dirs, [path |-> path,
                                                      cache_type |-> cache_patterns[j][2],
                                                      size |-> size]),
                           seen |-> acc.seen \cup {path}]
                     ELSE acc
         IN  match_patterns(n, j + 1, next)

\* the outer loop over the walk
RECURSIVE scan_cache_dirs(_, _)
scan_cache_dirs(items, acc) ==
    IF items = << >> THEN acc
    ELSE LET it == Head(items)
         IN  scan_cache_dirs(Tail(items),
                             IF it.ok /\ is_dir(it.rel) THEN match_patterns(it.rel, 1, acc)
                             ELSE acc)

find_cache_directories ==
    sort_by_size_desc(
        scan_cache_dirs(WalkDir("", {CacheMaxDepth}, TRUE), [dirs |-> << >>, seen |-> {}]).dirs)

(***************************************************************************)
(* Analysis Aggregator: the sums of analyze_disk (filesystem.rs:298-313).  *)
(* The sizes of the model keep every sum far below 2^64.                   *)
(***************************************************************************)
\* a faulty variant: every copy of a group is counted, the kept one too
group_reclaimable_all_copies(group) == IF Len(group) > 1 THEN group[1].size * Len(group) ELSE 0

\* group[0].size * (group.len() - 1)
group_reclaimable(group) == IF Len(group) > 1 THEN group[1].size * (Len(group) - 1) ELSE 0

duplicate_reclaimable(groups) == SumOf([i \in 1..Len(groups) |-> group_reclaimable(groups[i])])

sizes_sum(records) == SumOf([i \in 1..Len(records) |-> records[i].size])

total_reclaimable_of(groups, caches, old) ==
    duplicate_reclaimable(groups) + sizes_sum(caches) + sizes_sum(old)

(***************************************************************************)
(* The deleting primitives: filesystem.rs delete_file, delete_directory.   *)
(* Each returns whether it succeeded and the tree it leaves.               *)
(***************************************************************************)
Locked(f, n) == f[n].present /\ f[n].fault = "locked"

\* fs::remove_file: fails on a missing path, a directory, a locked file or parent
delete_file(path) ==
    LET n == NodeAt(path)
        ok == /\ fs[n].present
              /\ KindOf(n) # "dir"
              /\ ~Locked(fs, n)
              /\ ~Locked(fs, ParentOf(n))
    IN  [ok |-> ok, fs |-> IF ok THEN [fs EXCEPT ![n].present = FALSE] ELSE fs]

\* fs::remove_dir_all: removes the entries below the directory in walk order
\* and stops at the first it cannot remove or enter, leaving the rest
delete_directory(path) ==
    LET n == NodeAt(path)
        index(m) == CHOOSE i \in DOMAIN Entries : Entries[i].rel = m
        below == { m \in Subtree(n) : fs[m].present }
        blocking == { m \in below : fs[m].fault = "locked" \/ (is_dir(m) /\ fs[m].fault = "list") }
        first == CHOOSE m \in blocking : \A o \in blocking : index(m) <= index(o)
        ok == fs[n].present /\ is_dir(n) /\ blocking = {}
        gone == IF ok THEN below
                ELSE IF fs[n].present /\ is_dir(n)
                     THEN { m \in below : index(m) < index(first) /\ m \notin SelfAndAncestors(first) }
                     ELSE {}
    IN  [ok |-> ok, fs |-> [m \in Nodes |-> IF m \in gone THEN [fs[m] EXCEPT !.present = FALSE]
                                            ELSE fs[m]]]

(***************************************************************************)
(* run_filesystem_cleanup (main.rs:235-505), one action per step.          *)
(***************************************************************************)
Init ==
    /\ fs \in FsStates
    /\ config \in Configs
    /\ pc = "enter_path"
    /\ scan_path = ""
    /\ now = TimeOld
    /\ large_files = << >>
    /\ duplicate_groups = << >>
    /\ old_files = << >>
    /\ cache_dirs = << >>
    /\ total_reclaimable = 0
    /\ presented = FALSE
    /\ queue = << >>
    /\ removed_count = 0
    /\ removed_size = 0
    /\ deletions = << >>
    /\ selected = << >>
    /\ steps = << >>

analysis == <<large_files, duplicate_groups, old_files, cache_dirs, total_reclaimable, now>>

cleanup == <<queue, removed_count, removed_size, deletions, selected, steps>>

\* main.rs:237-253: read the path to scan; a path that does not exist ends the run
EnterScanPath ==
    /\ pc = "enter_path"
    /\ \E input \in ScanPaths \cup {MissingPath} :
          IF input \in ScanPaths
          THEN scan_path' = input /\ pc' = "scan_large"
          ELSE scan_path' = input /\ pc' = "done"
    /\ UNCHANGED <<fs, config, analysis, presented, cleanup>>

\* filesystem.rs:286, find_large_files.  A product beyond u64 aborts the run where
\* overflow checks are compiled in (debug builds) and wraps where they are not.
FindLargeFiles ==
    /\ pc = "scan_large"
    /\ \/ /\ min_size_overflows(config.min_file_size_mb)
          /\ pc' = "panicked"
          /\ UNCHANGED large_files
       \/ /\ large_files' = find_large_files(min_size_bytes_of(config.min_file_size_mb))
          /\ pc' = "scan_dups"
    /\ UNCHANGED <<fs, scan_path, config, now, duplicate_groups, old_files, cache_dirs,
                   total_reclaimable, presented, cleanup>>

\* filesystem.rs:289, find_duplicates
FindDuplicates ==
    /\ pc = "scan_dups"
    /\ duplicate_groups' \in Orderings(find_duplicates)
    /\ pc' = "scan_old"
    /\ UNCHANGED <<fs, scan_path, config, now, large_files, old_files, cache_dirs,
                   total_reclaimable, presented, cleanup>>

\* filesystem.rs:292, find_old_files: `now` is read once, before the walk
FindOldFiles ==
    /\ pc = "scan_old"
    /\ \/ /\ threshold_overflows(config.old_file_days)
          /\ pc' = "panicked"
          /\ UNCHANGED <<now, old_files>>
       \/ /\ now' = Clock
          /\ old_files' = find_old_files(threshold_secs_of(config.old_file_days), Clock)
          /\ pc' = "scan_cache"
    /\ UNCHANGED <<fs, scan_path, config, large_files, duplicate_groups, cache_dirs,
                   total_reclaimable, presented, cleanup>>

\* filesystem.rs:295, find_cache_directories
FindCacheDirectories ==
    /\ pc = "scan_cache"
    /\ cache_dirs' = find_cache_directories
    /\ pc' = "sum"
    /\ UNCHANGED <<fs, scan_path, config, now, large_files, duplicate_groups, old_files,
                   total_reclaimable, presented, cleanup>>

\* filesystem.rs:298-321: the totals, and analyze_disk returns
AnalyzeDiskReturn ==
    /\ pc = "sum"
    /\ total_reclaimable' = total_reclaimable_of(duplicate_groups, cache_dirs, old_files)
    /\ pc' = "display"
    /\ UNCHANGED <<fs, scan_path, config, now, large_files, duplicate_groups, old_files,
                   cache_dirs, presented, cleanup>>

\* a faulty variant: the cleanup offered before anything is shown
DisplayAnalysisSkipped ==
    /\ pc = "display"
    /\ pc' = "opt_dups"
    /\ UNCHANGED <<fs, scan_path, config, analysis, presented, cleanup>>

\* main.rs:261-357: print the four lists and the total
DisplayAnalysis ==
    /\ pc = "display"
    /\ presented' = TRUE
    /\ pc' = "opt_dups"
    /\ UNCHANGED <<fs, scan_path, config, analysis, cleanup>>

\* prompt_yes_no: "y" or "yes" is TRUE, anything else FALSE
Answers == BOOLEAN

RECURSIVE Flatten(_)
Flatten(seqs) == IF seqs = << >> THEN << >> ELSE Head(seqs) \o Flatten(Tail(seqs))

\* main.rs:368-384: of every group, the members after the first
duplicates_to_remove(groups) ==
    Flatten([i \in 1..Len(groups) |-> IF Len(groups[i]) > 1 THEN Tail(groups[i]) ELSE << >>])

\* main.rs:362-366: option 1, offered when there are duplicate groups
OfferDuplicates ==
    /\ pc = "opt_dups"
    /\ IF duplicate_groups = << >>
       THEN pc' = "opt_cache" /\ UNCHANGED <<queue, removed_count, removed_size, selected, steps>>
       ELSE \E answer \in Answers :
               IF answer
               THEN /\ queue' = duplicates_to_remove(duplicate_groups)
                    /\ selected' = queue'
                    /\ steps' = Append(steps, "duplicates")
                    /\ removed_count' = 0
                    /\ removed_size' = 0
                    /\ pc' = "rm_dups"
               ELSE pc' = "opt_cache" /\ UNCHANGED <<queue, removed_count, removed_size, selected, steps>>
    /\ UNCHANGED <<fs, scan_path, config, analysis, presented, deletions>>

\* a faulty variant: the first failed delete ends the loop
RemoveFileStepAbortOnError(next_pc) ==
    /\ queue # << >>
    /\ LET file == Head(queue)
           r == delete_file(file.path)
       IN  /\ fs' = r.fs
           /\ removed_count' = IF r.ok THEN removed_count + 1 ELSE removed_count
           /\ removed_size' = IF r.ok THEN removed_size + file.size ELSE removed_size
           /\ deletions' = Append(deletions, [op |-> "delete_file", path |-> file.path, ok |-> r.ok])
           /\ queue' = IF r.ok THEN Tail(queue) ELSE << >>
    /\ pc' = IF queue' = << >> THEN next_pc ELSE pc
    /\ UNCHANGED <<scan_path, config, analysis, presented, selected, steps>>

\* one pass of a removal loop over files (main.rs:371-382, 484-494): the delete
\* is attempted, counted when it succeeds, and the loop goes on either way
RemoveFileStep(next_pc) ==
    /\ queue # << >>
    /\ LET file == Head(queue)
           r == delete_file(file.path)
       IN  /\ fs' = r.fs
           /\ removed_count' = IF r.ok THEN removed_count + 1 ELSE removed_count
           /\ removed_size' = IF r.ok THEN removed_size + file.size ELSE removed_size
           /\ deletions' = Append(deletions, [op |-> "delete_file", path |-> file.path, ok |-> r.ok])
    /\ queue' = Tail(queue)
    /\ pc' = IF Tail(queue) = << >> THEN next_pc ELSE pc
    /\ UNCHANGED <<scan_path, config, analysis, presented, selected, steps>>

\* main.rs:371-382
RemoveDuplicate == pc = "rm_dups" /\ RemoveFileStep("opt_cache")

\* the cache types of cache_by_type (main.rs:398-405)
cache_types_of(caches) == { caches[i].cache_type : i \in DOMAIN caches }

\* what the user may type at "Enter numbers to clear": nothing, "all", or numbers
SelectionInputs(types) ==
    { [text |-> "", numbers |-> << >>], [text |-> "all", numbers |-> << >>] } \cup
    { [text |-> "numbers", numbers |-> q] :
        q \in UNION { [1..k -> 0..(Cardinality(types) + 1)] : k \in 1..MaxSelections } }

\* main.rs:424-464: the directories the input selects, in deletion order.
\* cache_types lists the keys of a HashMap, in the order `order`.
selected_cache_dirs(caches, order, input) ==
    IF input.text = "" THEN << >>
    ELSE IF input.text = "all" THEN caches
    ELSE Flatten([i \in 1..Len(input.numbers) |->
            IF input.numbers[i] > 0 /\ input.numbers[i] <= Len(order)
            THEN SelectSeq(caches, LAMBDA c : c.cache_type = order[input.numbers[i]])
            ELSE << >>])

\* main.rs:393-427: option 2, offered when there are cache directories
OfferCache ==
    /\ pc = "opt_cache"
    /\ IF cache_dirs = << >>
       THEN pc' = "opt_old" /\ UNCHANGED <<queue, removed_size, selected, steps>>
       ELSE \E answer \in Answers :
               IF answer
               THEN \E order \in Orderings(cache_types_of(cache_dirs)) :
                    \E input \in SelectionInputs(cache_types_of(cache_dirs)) :
                       /\ queue' = selected_cache_dirs(cache_dirs, order, input)
                       /\ selected' = queue'
                       /\ steps' = Append(steps, "cache")
                       /\ removed_size' = 0
                       /\ pc' = IF queue' = << >> THEN "opt_old" ELSE "rm_cache"
               ELSE pc' = "opt_old" /\ UNCHANGED <<queue, removed_size, selected, steps>>
    /\ UNCHANGED <<fs, scan_path, config, analysis, presented, removed_count, deletions>>

\* main.rs:429-439, 450-460: one pass of the loop over the selected directories
RemoveCacheDirectory ==
    /\ pc = "rm_cache"
    /\ queue # << >>
    /\ LET cache == Head(queue)
           r == delete_directory(cache.path)
       IN  /\ fs' = r.fs
           /\ removed_size' = IF r.ok THEN removed_size + cache.size ELSE removed_size
           /\ deletions' = Append(deletions, [op |-> "delete_directory", path |-> cache.path, ok |-> r.ok])
    /\ queue' = Tail(queue)
    /\ pc' = IF Tail(queue) = << >> THEN "opt_old" ELSE pc
    /\ UNCHANGED <<scan_path, config, analysis, presented, removed_count, selected, steps>>

\* main.rs:471-482: option 3, offered when there are old files, confirmed twice
OfferOldFiles ==
    /\ pc = "opt_old"
    /\ IF old_files = << >>
       THEN pc' = "done" /\ UNCHANGED <<queue, removed_count, removed_size, selected, steps>>
       ELSE \E answer \in Answers, sure \in Answers :
               IF answer /\ sure
               THEN /\ queue' = old_files
                    /\ selected' = queue'
                    /\ steps' = Append(steps, "old")
                    /\ removed_count' = 0
                    /\ removed_size' = 0
                    /\ pc' = "rm_old"
               ELSE pc' = "done" /\ UNCHANGED <<queue, removed_count, removed_size, selected, steps>>
    /\ UNCHANGED <<fs, scan_path, config, analysis, presented, deletions>>

\* main.rs:484-494
RemoveOldFile == pc = "rm_old" /\ RemoveFileStep("done")

Next ==
    \/ EnterScanPath
    \/ FindLargeFiles
    \/ FindDuplicates
    \/ FindOldFiles
    \/ FindCacheDirectories
    \/ AnalyzeDiskReturn
    \/ DisplayAnalysis
    \/ OfferDuplicates
    \/ RemoveDuplicate
    \/ OfferCache
    \/ RemoveCacheDirectory
    \/ OfferOldFiles
    \/ RemoveOldFile

Spec == Init /\ [][Next]_vars

\* analyze_disk (filesystem.rs:284-322) calls its scanners one after another
\* and waits for no input: while it runs, control moves on to the next call,
\* to its return, or to the abort of the process
AnalyzeDiskAdvances ==
    /\ pc \in {"scan_large", "scan_dups", "scan_old", "scan_cache", "sum"}
    /\ pc' \in {"scan_dups", "scan_old", "scan_cache", "sum", "display", "panicked"}

ScannersRun == WF_pc(AnalyzeDiskAdvances)

LiveSpec == Spec /\ ScannersRun

(***************************************************************************)
(* Notions the properties below are stated in.                             *)
(***************************************************************************)
\* analyze_disk is still running
Scanning == pc \in {"scan_large", "scan_dups", "scan_old", "scan_cache", "sum"}

\* a cleanup loop is running
Removing == pc \in {"rm_dups", "rm_cache", "rm_old"}

\* size >= min_size_mb * 1024 * 1024, the product taken exactly: with hi > 0 the
\* product is at least 2^64, above every file size
ReachesExactMinSize(size, min_size_mb) == min_size_mb.hi = 0 /\ size >= min_size_mb.lo * MiB

\* age >= days * 86400, the product taken exactly: with hi > 0 the product is at
\* least 2^64 seconds, above every age of the model
ReachesExactAge(age, days) == days.hi = 0 /\ age >= days.lo * SecsPerDay

NonIncreasingBySize(records) ==
    \A i, j \in DOMAIN records : i < j => records[i].size >= records[j].size

\* the paths of a sequence of records
PathsOf(records) == { records[i].path : i \in DOMAIN records }

\* the groups holding a path
GroupsHolding(path) == { k \in DOMAIN duplicate_groups : path \in PathsOf(duplicate_groups[k]) }

\* a regular file the duplicate scan can reach and read: it and the directories
\* above it are not excluded, those directories can be entered, its metadata
\* and content can be read, and it is larger than the noise floor
Comparable(n) ==
    /\ KindOf(n) = "file"
    /\ \A a \in SelfAndAncestors(n) :
          /\ fs[a].present
          /\ ~should_exclude_path(PathOf(scan_path, a))
          /\ a # n => fs[a].fault # "list"
    /\ fs[n].fault \notin {"meta", "times", "read"}
    /\ fs[n].content.len > NoiseFloor

RECURSIVE SumOver(_, _)
SumOver(S, val) ==
    IF S = {} THEN 0
    ELSE LET x == CHOOSE y \in S : TRUE IN val[x] + SumOver(S \ {x}, val)

\* an exclusion marker occurs in the path as whole components
MarkerAsComponents(path) ==
    \E i \in DOMAIN excluded_dirs :
        LET m == excluded_dirs[i]
            name == IF starts_with(m, "/") THEN SubSeq(m, 2, Len(m)) ELSE m
        IN  contains("/" \o path \o "/", "/" \o name \o "/")

(***************************************************************************)
(* C1: every file find_large_files returns has size >= min_size_mb * 1024  *)
(* * 1024, and the returned sequence is non-increasing by size.            *)
(***************************************************************************)
C1_LargeFilesReachThresholdAndDescend ==
    /\ \A i \in DOMAIN large_files :
          ReachesExactMinSize(large_files[i].size, config.min_file_size_mb)
    /\ NonIncreasingBySize(large_files)

(***************************************************************************)
(* C2: every group find_duplicates returns has at least two members, its   *)
(* members have one size and one content hash, and each is larger than     *)
(* 1024 bytes.                                                             *)
(***************************************************************************)
C2_GroupsAreSameSizeSameHash ==
    pc = "scan_old" =>
        \A k \in DOMAIN duplicate_groups :
            LET group == duplicate_groups[k]
            IN  /\ Len(group) >= 2
                /\ \A i, j \in DOMAIN group :
                      /\ group[i].size = group[j].size
                      /\ hash_file(group[i].path).ok
                      /\ hash_file(group[i].path) = hash_file(group[j].path)
                /\ \A i \in DOMAIN group : group[i].size > 1024

\* find_duplicates has returned two groups, one of them of three files
C2_Witness ==
    /\ pc = "scan_old"
    /\ Len(duplicate_groups) >= 1
    /\ \E k \in DOMAIN duplicate_groups : Len(duplicate_groups[k]) = 3

(***************************************************************************)
(* C3: find_duplicates returns exactly the content-equality classes: two   *)
(* readable, non-excluded regular files larger than 1024 bytes share a     *)
(* group if and only if their contents are identical; a file whose content *)
(* no other such file shares is in no group; no file is in two groups.     *)
(***************************************************************************)
C3_GroupsAreContentClasses ==
    pc = "scan_old" =>
        LET files == { n \in Nodes : Comparable(n) }
            path(n) == PathOf(scan_path, n)
        IN  /\ \A n1, n2 \in files :
                  n1 # n2 =>
                      ((GroupsHolding(path(n1)) \cap GroupsHolding(path(n2)) # {})
                          <=> fs[n1].content = fs[n2].content)
            /\ \A n \in files :
                  (\A o \in files \ {n} : fs[o].content # fs[n].content)
                      => GroupsHolding(path(n)) = {}
            /\ \A n \in Nodes : Cardinality(GroupsHolding(path(n))) <= 1
            /\ \A k \in DOMAIN duplicate_groups :
                  /\ PathsOf(duplicate_groups[k]) \subseteq { path(n) : n \in files }
                  /\ Cardinality(PathsOf(duplicate_groups[k])) = Len(duplicate_groups[k])

\* two groups were returned while a third content, held by one readable file
\* alone, is in none
C3_Witness ==
    /\ pc = "scan_old"
    /\ Len(duplicate_groups) = 2
    /\ \E n \in Nodes : Comparable(n) /\ GroupsHolding(PathOf(scan_path, n)) = {}

(***************************************************************************)
(* C4: every record find_cache_directories returns has a recursive         *)
(* file-size sum above 0, and no two records have the same path.           *)
(***************************************************************************)
C4_CacheDirsNonEmptyAndDistinct ==
    pc = "sum" =>
        /\ \A i \in DOMAIN cache_dirs :
              LET below == { n \in Subtree(NodeAt(cache_dirs[i].path)) :
                               /\ KindOf(n) = "file"
                               /\ fs[n].present
                               /\ fs[n].fault # "meta"
                               /\ \A a \in SelfAndAncestors(n) \cap Subtree(NodeAt(cache_dirs[i].path)) :
                                     a # n => fs[a].fault # "list" }
              IN  /\ cache_dirs[i].size > 0
                  /\ cache_dirs[i].size = SumOver(below, [n \in below |-> fs[n].content.len])
        /\ \A i, j \in DOMAIN cache_dirs : cache_dirs[i].path = cache_dirs[j].path => i = j

\* two cache directories were recorded
C4_Witness == pc = "sum" /\ Len(cache_dirs) = 2

\* no pattern of the table is a suffix of another: no path matches two patterns
NoPatternEndsWithAnother ==
    \A i, j \in DOMAIN cache_patterns :
        i # j => ~ends_with(cache_patterns[i][1], cache_patterns[j][1])

(***************************************************************************)
(* C5: find_old_files captures one `now` before the walk; every file it    *)
(* returns has now - last_accessed >= days * 86400 seconds against that    *)
(* value; a file accessed after `now` is never returned and does not fail  *)
(* the scan.                                                               *)
(***************************************************************************)
C5_OldFilesAreAtLeastDaysOld ==
    pc = "scan_cache" =>
        \A i \in DOMAIN old_files :
            /\ old_files[i].last_accessed <= now
            /\ ReachesExactAge(now - old_files[i].last_accessed, config.old_file_days)

(***************************************************************************)
(* C6: total_reclaimable is the sum over the duplicate groups of (size of  *)
(* the first member) * (group size - 1), plus the sizes of all cache       *)
(* directories, plus the sizes of all stale files, a file in several       *)
(* categories counted in each.                                             *)
(***************************************************************************)
C6_TotalIsSumOfThree ==
    pc = "display" =>
        total_reclaimable =
            SumOver(DOMAIN duplicate_groups,
                    [k \in DOMAIN duplicate_groups |->
                        duplicate_groups[k][1].size * (Len(duplicate_groups[k]) - 1)])
            + SumOver(DOMAIN cache_dirs, [k \in DOMAIN cache_dirs |-> cache_dirs[k].size])
            + SumOver(DOMAIN old_files, [k \in DOMAIN old_files |-> old_files[k].size])

\* the total was computed with one file a duplicate, stale, and inside a
\* cache directory at once
C6_Witness ==
    /\ pc = "display"
    /\ \E p \in PathsOf(old_files) :
          /\ GroupsHolding(p) # {}
          /\ \E i \in DOMAIN cache_dirs : starts_with(p, cache_dirs[i].path \o "/")

(***************************************************************************)
(* C7: a file under a version-control metadata directory (.git) below the  *)
(* root never appears in the find_large_files result.                      *)
(***************************************************************************)
C7_NoLargeFileUnderGit ==
    ~min_size_overflows(config.min_file_size_mb) =>
        \A i \in DOMAIN large_files : ~contains("/" \o large_files[i].path, "/.git/")

(***************************************************************************)
(* C8: the path filter excludes a path only when an exclusion marker       *)
(* occurs in it as whole path components.                                  *)
(***************************************************************************)
C8_ExcludedOnlyByWholeComponents ==
    pc = "scan_large" =>
        \A n \in Nodes :
            should_exclude_path(PathOf(scan_path, n)) => MarkerAsComponents(PathOf(scan_path, n))

(***************************************************************************)
(* C9: a file that cannot be read in the hashing pass is a member of no    *)
(* returned group, and a size bucket holding only that file and one        *)
(* readable file yields no group.                                          *)
(***************************************************************************)
C9_UnreadableFileDropped ==
    pc = "scan_old" =>
        LET buckets == size_groups(size_pass)
            unreadable(f) == fs[NodeAt(f.path)].fault = "read"
        IN  /\ \A n \in Nodes :
                  fs[n].fault = "read" => GroupsHolding(PathOf(scan_path, n)) = {}
            /\ \A s \in DOMAIN buckets :
                  (/\ Len(buckets[s]) = 2
                   /\ \E i \in {1, 2} : unreadable(buckets[s][i]) /\ ~unreadable(buckets[s][3 - i]))
                      => \A k \in DOMAIN duplicate_groups : duplicate_groups[k][1].size # s

\* an unreadable file shared its size bucket, and its content, with one
\* readable file, and find_duplicates has returned
C9_Witness ==
    /\ pc = "scan_old"
    /\ \E s \in DOMAIN size_groups(size_pass) :
          LET bucket == size_groups(size_pass)[s]
          IN  /\ Len(bucket) = 2
              /\ fs[NodeAt(bucket[1].path)].fault = "read"
              /\ fs[NodeAt(bucket[2].path)].fault = "none"
              /\ fs[NodeAt(bucket[1].path)].content = fs[NodeAt(bucket[2].path)].content

(***************************************************************************)
(* C10: no delete_file or delete_directory call happens before             *)
(* analyze_disk has returned and its results have been presented; the      *)
(* scanners and analyze_disk change no filesystem entry.                   *)
(***************************************************************************)
C10_DeletesOnlyAfterPresentation ==
    [][(fs' # fs \/ deletions' # deletions) => (presented /\ ~Scanning /\ Removing)]_vars

\* a file has been deleted
C10_Witness ==
    /\ \E i \in DOMAIN deletions : deletions[i].ok
    /\ \E n \in Nodes : ~fs[n].present

(***************************************************************************)
(* C11: a failed delete does not end a cleanup step.  At every point of a  *)
(* step the items already passed are exactly the first selected ones, each *)
(* with its own delete attempt, in order; the items still queued are the   *)
(* rest; outside the loops nothing is left queued; and the removed count   *)
(* and recovered size are those of the attempts that succeeded.            *)
(***************************************************************************)
\* how many of the selected items the running step has passed
StepDone == Len(selected) - Len(queue)

\* the delete calls of the latest step
StepAttempts == SubSeq(deletions, Len(deletions) - StepDone + 1, Len(deletions))

C11_FailedDeleteDoesNotAbortStep ==
    steps # << >> =>
        /\ StepDone >= 0
        /\ Len(deletions) >= StepDone
        /\ queue = SubSeq(selected, StepDone + 1, Len(selected))
        /\ ~Removing => queue = << >>
        /\ \A i \in 1..StepDone : StepAttempts[i].path = selected[i].path
        /\ LET succeeded == { i \in 1..StepDone : StepAttempts[i].ok }
           IN  /\ removed_size = SumOver(succeeded, [i \in succeeded |-> selected[i].size])
               /\ steps[Len(steps)] # "cache" => removed_count = Cardinality(succeeded)
               /\ \A i \in succeeded : ~fs[NodeAt(selected[i].path)].present

\* a step has ended in which a delete failed and a later item was still
\* attempted and removed
C11_Witness ==
    /\ steps # << >>
    /\ ~Removing
    /\ Len(deletions) >= StepDone
    /\ \E i, j \in 1..StepDone : i < j /\ ~StepAttempts[i].ok /\ StepAttempts[j].ok

(***************************************************************************)
(* C12: an entry that cannot be read costs a scan only that entry, and a   *)
(* directory that cannot be entered only its subtree.  Every regular file  *)
(* that is not excluded, lies under no such directory, has readable        *)
(* metadata and meets the scanner's criterion is in the scanner's result:  *)
(* large files, duplicate groups and old files alike.                      *)
(***************************************************************************)
\* a regular file the walk can reach and whose metadata can be read
Unaffected(n) ==
    /\ KindOf(n) = "file"
    /\ \A a \in SelfAndAncestors(n) :
          /\ fs[a].present
          /\ ~should_exclude_path(PathOf(scan_path, a))
          /\ a # n => fs[a].fault # "list"
    /\ fs[n].fault \notin {"meta", "times"}

\* an entry other than n, and not above it, fails during the scans
FaultElsewhere(n) ==
    \E m \in Nodes \ SelfAndAncestors(n) : fs[m].fault \in {"meta", "times", "read", "list"}

C12_ErrorsSkipOnlyTheirEntry ==
    /\ pc = "scan_dups" =>
          \A n \in Nodes :
              (Unaffected(n) /\ ReachesExactMinSize(fs[n].content.len, config.min_file_size_mb))
                  => PathOf(scan_path, n) \in PathsOf(large_files)
    /\ pc = "scan_old" =>
          \A n \in Nodes :
              (/\ Comparable(n)
               /\ \E m \in Nodes \ {n} : Comparable(m) /\ fs[m].content = fs[n].content)
                  => GroupsHolding(PathOf(scan_path, n)) # {}
    /\ pc = "scan_cache" =>
          \A n \in Nodes :
              (/\ Unaffected(n)
               /\ fs[n].atime <= now
               /\ ReachesExactAge(now - fs[n].atime, config.old_file_days))
                  => PathOf(scan_path, n) \in PathsOf(old_files)

\* the three scans have run over a tree with a directory that cannot be
\* entered, and each returned a file outside it
C12_Witness ==
    /\ pc = "scan_cache"
    /\ \E d \in Nodes : KindOf(d) = "dir" /\ fs[d].fault = "list"
    /\ \E n \in Nodes : /\ Unaffected(n) /\ FaultElsewhere(n)
                         /\ PathOf(scan_path, n) \in PathsOf(large_files)
    /\ \E n \in Nodes : /\ Unaffected(n) /\ FaultElsewhere(n)
                         /\ GroupsHolding(PathOf(scan_path, n)) # {}
    /\ \E n \in Nodes : /\ Unaffected(n) /\ FaultElsewhere(n)
                         /\ PathOf(scan_path, n) \in PathsOf(old_files)

(***************************************************************************)
(* C13: on every tree of the model, with its symbolic link and its         *)
(* unreadable entries, each of find_large_files, find_duplicates,          *)
(* find_old_files and find_cache_directories, once called, eventually      *)
(* returns, and so does analyze_disk.                                      *)
(***************************************************************************)
C13_ScannersEventuallyReturn == Scanning ~> (pc = "display")

(***************************************************************************)
(* C14: for every min_size_mb of the u64 range find_large_files compares   *)
(* sizes with the exact product min_size_mb * 1024 * 1024: it does not     *)
(* abort on the multiplication, and it returns no file smaller than the    *)
(* product.                                                                *)
(***************************************************************************)
\* the run was aborted inside find_large_files: only there can it abort
\* while the stale-file threshold fits u64
AbortedInFindLargeFiles == pc = "panicked" /\ ~threshold_overflows(config.old_file_days)

C14_ThresholdIsExactProduct ==
    /\ ~AbortedInFindLargeFiles
    /\ pc = "scan_dups" =>
          \A i \in DOMAIN large_files :
              ReachesExactMinSize(large_files[i].size, config.min_file_size_mb)

(***************************************************************************)
(* C15: duplicate removal keeps one copy.  Once the user has accepted the  *)
(* removal of duplicates, that step deletes the first member of no group,  *)
(* and when run_filesystem_cleanup ends at least one member of every group *)
(* still exists, whatever was answered at the two later prompts (stated    *)
(* for the configuration main.rs runs with, AnalysisConfig::default()).    *)
(***************************************************************************)
\* the user accepted "Remove duplicate files (keep one copy)?"
DuplicatesAccepted == steps # << >> /\ steps[1] = "duplicates"

\* the delete calls of the duplicate step made so far: it is the first step
DuplicateStepCalls ==
    SubSeq(deletions, 1,
           IF Len(deletions) < Len(duplicates_to_remove(duplicate_groups))
           THEN Len(deletions) ELSE Len(duplicates_to_remove(duplicate_groups)))

StillExists(file) == fs[NodeAt(file.path)].present

C15_FirstCopySpared ==
    DuplicatesAccepted =>
        \A i \in DOMAIN DuplicateStepCalls, k \in DOMAIN duplicate_groups :
            DuplicateStepCalls[i].path # duplicate_groups[k][1].path

C15_OneCopySurvivesCleanup ==
    /\ C15_FirstCopySpared
    /\ (DuplicatesAccepted /\ pc = "done" /\ config = default_config) =>
          \A k \in DOMAIN duplicate_groups :
              \E i \in DOMAIN duplicate_groups[k] : StillExists(duplicate_groups[k][i])

====
